---------------------------- MODULE Spec2Model ----------------------------
(***************************************************************************)
(* Scale Climber: the microphone session (App + AudioAnalyzer), the        *)
(* Tower's scale-position mapper with its continuity memory, the warp      *)
(* function and the note namer.                                            *)
(*                                                                         *)
(* Numbers.  The code computes in IEEE doubles; the model computes the     *)
(* same formulas exactly over the rationals (pairs <<num, den>> in lowest  *)
(* terms).  Frequencies are integers in deci-Hertz (0.1 Hz), note numbers  *)
(* are integers in cents (0.01 semitone).  The logarithm of line 131 /     *)
(* line 23 is the inverse of the getFrequency table.                       *)
(***************************************************************************)
EXTENDS Integers, Sequences, FiniteSets, TLC

VARIABLES
    \* AudioAnalyzer fields (src/services/audioAnalyzer.ts:2-4)
    audioContext, analyser, mediaStreamSource,
    \* App state and refs (src/unnamed/part_000:8-14)
    isListening, pitch, error, intervalRef, mounted,
    \* browser: live interval timers, getUserMedia calls in flight, Date.now()
    timers, pendingStarts, now,
    \* React: passive effects of the last commit not yet run, and the
    \* dependency values the effects last ran with
    fxPending, depListening, depPosition, depFreq,
    \* Tower (src/components/Tower.tsx:12-17, 108)
    prevPositionRef, position, lastNoteUpdateRef, displayedNote,
    \* history: the last operation, the last non-null position rendered
    lastOp, lastNonNull,
    \* inputs and results of the pure functions when run on their own
    currentKey, fraction, gap, warped, noteNum, noteName,
    \* the pitch estimator run on one frame: the frame and the locals of
    \* autoCorrelate (src/services/audioAnalyzer.ts:51-58, 68)
    scan

appVars == <<audioContext, analyser, mediaStreamSource, isListening, pitch,
             error, intervalRef, mounted, timers, pendingStarts, now,
             fxPending, depListening, depPosition, depFreq,
             prevPositionRef, position, lastNoteUpdateRef, displayedNote,
             lastOp, lastNonNull>>
warpVars == <<fraction, gap, warped>>
nameVars == <<noteNum, noteName>>
scanVars == <<scan>>
vars == <<appVars, currentKey, warpVars, nameVars, scanVars>>

----------------------------------------------------------------------------
(* Exact rational arithmetic standing for the code's double arithmetic.    *)

Abs(x) == IF x < 0 THEN -x ELSE x

Min(S) == CHOOSE x \in S : \A y \in S : x <= y

\* F applied to the value of v, computed once
Bind(v, F(_)) == CHOOSE r \in {F(x) : x \in {v}} : TRUE

RECURSIVE Gcd(_, _)
Gcd(a, b) == IF b = 0 THEN a ELSE Gcd(b, a % b)

\* the rational n/d in lowest terms with a positive denominator
Rat(n, d) ==
    LET g == Gcd(Abs(n), Abs(d))
        s == IF d < 0 THEN -1 ELSE 1
    IN  <<(s * n) \div g, (s * d) \div g>>

RInt(n)    == <<n, 1>>
RAdd(a, b) == Rat(a[1] * b[2] + b[1] * a[2], a[2] * b[2])
RSub(a, b) == Rat(a[1] * b[2] - b[1] * a[2], a[2] * b[2])
RMul(a, b) == Rat(a[1] * b[1], a[2] * b[2])
RDiv(a, b) == Rat(a[1] * b[2], a[2] * b[1])
RLt(a, b)  == a[1] * b[2] < b[1] * a[2]
RLe(a, b)  == a[1] * b[2] <= b[1] * a[2]
RGt(a, b)  == RLt(b, a)

\* the absent value of `number | null`
Null == <<>>

\* JavaScript's % truncates toward zero: the result has the dividend's sign
JsMod(a, b) == IF a >= 0 THEN a % b ELSE -((-a) % b)

\* Math.round of a note number in cents: floor(x + 0.5), in semitones
MathRound(cents) == (cents + 50) \div 100

----------------------------------------------------------------------------
(* constants.ts (the tail of src/services/audioAnalyzer.ts)                *)

\* the 15 Hz buffer, in deci-Hertz
buffer == 150

\* the no-pitch sentinel of getPitch
NoPitch == -1

BASE_C3_MIDI == 48

MAJOR_SCALE_INTERVALS == <<0, 2, 4, 5, 7, 9, 11, 12>>

KEYS == <<"C", "D", "E", "F", "G", "A", "B">>

KEY_OFFSETS ==
    [k \in {"C", "C#", "Db", "D", "D#", "Eb", "E", "F", "F#", "Gb", "G",
            "G#", "Ab", "A", "A#", "Bb", "B"} |->
        CASE k = "C" -> 0
          [] k \in {"C#", "Db"} -> 1
          [] k = "D" -> 2
          [] k \in {"D#", "Eb"} -> 3
          [] k = "E" -> 4
          [] k = "F" -> 5
          [] k \in {"F#", "Gb"} -> 6
          [] k = "G" -> 7
          [] k \in {"G#", "Ab"} -> 8
          [] k = "A" -> 9
          [] k \in {"A#", "Bb"} -> 10
          [] k = "B" -> 11]

\* 440 * 2^((midi - 69) / 12) in deci-Hertz, midi 48 (C3) .. 84 (C6)
ToneTable ==
    <<1308, 1386, 1468, 1556, 1648, 1746, 1850, 1960, 2077, 2200, 2331, 2469,
      2616, 2772, 2937, 3111, 3296, 3492, 3700, 3920, 4153, 4400, 4662, 4939,
      5233, 5544, 5873, 6223, 6593, 6985, 7400, 7840, 8306, 8800, 9323, 9878,
      10465>>

getFrequency(midi) == ToneTable[midi - BASE_C3_MIDI + 1]

\* frequencies off the semitone grid that the model uses, with their note
\* numbers in cents: 80.0 Hz, and 282.1 Hz (30 cents above C#4)
OffToneTable == {<<800, 3949>>, <<2821, 6130>>}

\* 12 * log2(frequency / 440) + 69 in cents: the inverse of getFrequency
NoteNumOf(frequency) ==
    IF \E m \in 1..Len(ToneTable) : ToneTable[m] = frequency
    THEN 100 * ((CHOOSE m \in 1..Len(ToneTable) : ToneTable[m] = frequency)
                + BASE_C3_MIDI - 1)
    ELSE (CHOOSE e \in OffToneTable : e[1] = frequency)[2]

generateScaleData(rootKey) ==
    LET rootOffset == IF rootKey \in DOMAIN KEY_OFFSETS
                      THEN KEY_OFFSETS[rootKey] ELSE 0
        rootMidi == BASE_C3_MIDI + rootOffset
        scaleMidiNotes == [i \in 1..Len(MAJOR_SCALE_INTERVALS) |->
                              rootMidi + MAJOR_SCALE_INTERVALS[i]]
    IN  [scaleLow  |-> [i \in 1..Len(scaleMidiNotes) |->
                          [freq |-> getFrequency(scaleMidiNotes[i]),
                           index |-> i - 1]],
         scaleHigh |-> [i \in 1..Len(scaleMidiNotes) |->
                          [freq |-> getFrequency(scaleMidiNotes[i] + 12),
                           index |-> i - 1]]]

\* App's useMemo(() => generateScaleData(currentKey), [currentKey])
scaleData == [k \in DOMAIN KEY_OFFSETS |-> generateScaleData(k)]

----------------------------------------------------------------------------
(* Tower.tsx: the warp function and the scale-position mapper              *)

\* mutant: the middle segment is flat at 0.5, as the comment on line 32 has it
getWarpedFractionFlatMiddle(frac, startFreq, endFreq) ==
    IF Abs(MathRound(NoteNumOf(endFreq)) - MathRound(NoteNumOf(startFreq))) = 2
    THEN IF RLt(frac, Rat(375, 1000))
         THEN RMul(RDiv(frac, Rat(375, 1000)), Rat(5, 10))
         ELSE IF RGt(frac, Rat(625, 1000))
         THEN RAdd(Rat(5, 10),
                   RMul(RDiv(RSub(frac, Rat(625, 1000)), Rat(375, 1000)),
                        Rat(5, 10)))
         ELSE Rat(5, 10)
    ELSE frac

\* the three segments of the whole-tone warp (lines 37, 39, 42)
getWarpedFraction(frac, startFreq, endFreq) ==
    LET n1 == MathRound(NoteNumOf(startFreq))
        n2 == MathRound(NoteNumOf(endFreq))
        semitoneDist == Abs(n2 - n1)
    IN  IF semitoneDist = 2
        THEN IF RLt(frac, Rat(375, 1000))
             THEN RMul(RDiv(frac, Rat(375, 1000)), Rat(45, 100))
             ELSE IF RGt(frac, Rat(625, 1000))
             THEN RAdd(Rat(55, 100),
                       RMul(RDiv(RSub(frac, Rat(625, 1000)), Rat(375, 1000)),
                            Rat(45, 100)))
             ELSE RAdd(Rat(45, 100),
                       RMul(RDiv(RSub(frac, Rat(375, 1000)), Rat(25, 100)),
                            Rat(1, 10)))
        ELSE frac

\* mutant: the two clamps inside the buffer are missing
calculateScalePositionNoClamp(freq, scale) ==
    LET minFreq == scale[1].freq
        maxFreq == scale[Len(scale)].freq
        hits == {i \in 1..(Len(scale) - 1) :
                    freq >= scale[i].freq /\ freq <= scale[i + 1].freq}
    IN  IF freq < minFreq - buffer \/ freq > maxFreq + buffer THEN Null
        ELSE IF hits # {}
        THEN LET current == scale[Min(hits)]
                 next == scale[Min(hits) + 1]
             IN  Bind(Rat(freq - current.freq, next.freq - current.freq),
                      LAMBDA f :
                        RAdd(RInt(current.index),
                             Bind(getWarpedFraction(f, current.freq, next.freq),
                                  LAMBDA w : w)))
        ELSE Null

calculateScalePosition(freq, scale) ==
    LET minFreq == scale[1].freq
        maxFreq == scale[Len(scale)].freq
        hits == {i \in 1..(Len(scale) - 1) :
                    freq >= scale[i].freq /\ freq <= scale[i + 1].freq}
    IN  IF freq < minFreq - buffer \/ freq > maxFreq + buffer THEN Null
        ELSE IF hits # {}
        THEN LET current == scale[Min(hits)]
                 next == scale[Min(hits) + 1]
                 range == next.freq - current.freq
                 diff == freq - current.freq
                 rawFraction == Rat(diff, range)
             IN  Bind(rawFraction, LAMBDA f :
                      RAdd(RInt(current.index),
                           Bind(getWarpedFraction(f, current.freq, next.freq),
                                LAMBDA w : w)))
        ELSE IF freq >= minFreq - buffer /\ freq < minFreq THEN RInt(0)
        ELSE IF freq > maxFreq /\ freq <= maxFreq + buffer THEN RInt(7)
        ELSE Null

\* mutant: the continuity threshold is inclusive
getPositionInclusive(freq, scales, prev) ==
    IF freq <= 0 THEN Null
    ELSE Bind(<<calculateScalePosition(freq, scales.scaleLow),
                calculateScalePosition(freq, scales.scaleHigh)>>,
              LAMBDA pos :
                IF pos[1] # Null /\ pos[2] # Null
                THEN IF prev # Null
                     THEN IF RLe(Rat(35, 10), prev) THEN pos[1] ELSE pos[2]
                     ELSE pos[1]
                ELSE IF pos[1] # Null THEN pos[1]
                ELSE IF pos[2] # Null THEN pos[2]
                ELSE Null)

\* prev is prevPositionRef.current at the time of the render
getPosition(freq, scales, prev) ==
    IF freq <= 0 THEN Null
    ELSE Bind(<<calculateScalePosition(freq, scales.scaleLow),
                calculateScalePosition(freq, scales.scaleHigh)>>,
              LAMBDA pos :
                LET posLow == pos[1]
                    posHigh == pos[2]
                IN  IF posLow # Null /\ posHigh # Null
                    THEN IF prev # Null
                         THEN IF RGt(prev, Rat(35, 10))
                              THEN posLow ELSE posHigh
                         ELSE posLow
                    ELSE IF posLow # Null THEN posLow
                    ELSE IF posHigh # Null THEN posHigh
                    ELSE Null)

----------------------------------------------------------------------------
(* audioAnalyzer.ts: the note namer                                        *)

noteStrings == <<"C", "C#", "D", "Eb", "E", "F", "F#", "G", "G#", "A", "Bb", "B">>

NARROW_INDICES == {1, 3, 8, 10}

\* mutant: the narrow window excludes its edge (>= 0.25)
NoteLabelInclusive(n) ==
    LET roundedNote == MathRound(n)
        noteIndex == JsMod(JsMod(roundedNote, 12) + 12, 12)
        diff == n - 100 * roundedNote
        finalNote == IF noteIndex \in NARROW_INDICES /\ Abs(diff) >= 25
                     THEN IF diff > 0 THEN roundedNote + 1 ELSE roundedNote - 1
                     ELSE roundedNote
        octave == (finalNote \div 12) - 1
        finalNoteIndex == JsMod(JsMod(finalNote, 12) + 12, 12)
    IN  noteStrings[finalNoteIndex + 1] \o ToString(octave)

\* lines 133-154, on the note number in cents
NoteLabel(n) ==
    LET roundedNote == MathRound(n)
        noteIndex == JsMod(JsMod(roundedNote, 12) + 12, 12)
        diff == n - 100 * roundedNote
        finalNote == IF noteIndex \in NARROW_INDICES /\ Abs(diff) > 25
                     THEN IF diff > 0 THEN roundedNote + 1 ELSE roundedNote - 1
                     ELSE roundedNote
        octave == (finalNote \div 12) - 1
        finalNoteIndex == JsMod(JsMod(finalNote, 12) + 12, 12)
    IN  noteStrings[finalNoteIndex + 1] \o ToString(octave)

getNoteName(frequency) ==
    IF frequency <= 0 THEN "" ELSE NoteLabel(NoteNumOf(frequency))

----------------------------------------------------------------------------
(* The pitch estimator (src/services/audioAnalyzer.ts:33-98).  Samples are  *)
(* integers in units of 1/Unit; similarities are exact rationals.  The     *)
(* value returned is sampleRate / period.                                  *)

\* one sample unit is 1/Unit (0.005)
Unit == 200

RECURSIVE SumSquares(_, _)
\* lines 40-42 and 60-63: the sum of val * val over the first n samples
SumSquares(buf, n) ==
    IF n = 0 THEN 0 ELSE SumSquares(buf, n - 1) + buf[n] * buf[n]

\* rms < 0.01 (lines 43-46 and 64-66), as 10000 * sum < SIZE * Unit^2;
\* on an empty frame rms is 0/0 = NaN and NaN < 0.01 is false
TooQuiet(buf) ==
    /\ Len(buf) > 0
    /\ SumSquares(buf, Len(buf)) <= (Len(buf) * Unit * Unit - 1) \div 10000

RECURSIVE AbsDiffSum(_, _, _)
\* lines 73-75: the sum of |buffer[i] - buffer[i + offset]| for i < n
AbsDiffSum(buf, offset, n) ==
    IF n = 0 THEN 0
    ELSE AbsDiffSum(buf, offset, n - 1) + Abs(buf[n] - buf[n + offset])

\* line 77: correlation = 1 - (correlation / MAX_SAMPLES)
Similarity(buf, offset) ==
    RSub(RInt(1),
         RDiv(Rat(AbsDiffSum(buf, offset, Len(buf) \div 2), Unit),
              RInt(Len(buf) \div 2)))

\* lines 52-58 and 68: the locals of autoCorrelate before its loop
autoCorrelateStart(buf) ==
    [buffer |-> buf,
     MAX_SAMPLES |-> Len(buf) \div 2,
     pc |-> "rms",
     offset |-> 0,
     bestOffset |-> -1,
     bestCorrelation |-> RInt(0),
     foundGoodCorrelation |-> FALSE,
     correlations |-> [i \in 1..(Len(buf) \div 2) |-> RInt(0)],
     lastCorrelation |-> RInt(1),
     reads |-> {},
     outcome |-> "pending",
     period |-> RInt(0)]

\* the volume test of getPitch (line 46), repeated by autoCorrelate (line 66)
RmsGate(s) ==
    IF TooQuiet(s.buffer)
    THEN [s EXCEPT !.pc = "done", !.outcome = "nopitch"]
    ELSE [s EXCEPT !.pc = "scan"]

\* lines 86-88: the three neighbours are read and the period is
\* bestOffset + 8 * shift; a read outside the array is undefined and the
\* arithmetic on it gives NaN
Interpolate(s) ==
    LET b == s.bestOffset
        idx == {b + 1, b - 1, b}
    IN  IF idx \subseteq 0..(s.MAX_SAMPLES - 1) /\ s.correlations[b + 1] # RInt(0)
        THEN [s EXCEPT
                 !.pc = "done", !.outcome = "interpolated", !.reads = idx,
                 !.period =
                     RAdd(RInt(b),
                          RMul(RInt(8),
                               RDiv(RSub(s.correlations[b + 2],
                                         s.correlations[b]),
                                    s.correlations[b + 1])))]
        ELSE [s EXCEPT !.pc = "done", !.outcome = "nan", !.reads = idx]

\* mutant: a similarity equal to the previous one counts as rising
ScanLagNotStrict(s) ==
    Bind(Similarity(s.buffer, s.offset),
         LAMBDA correlation :
           Bind([s EXCEPT !.correlations[s.offset + 1] = correlation],
                LAMBDA t :
                  IF RGt(correlation, Rat(9, 10))
                     /\ RLe(s.lastCorrelation, correlation)
                  THEN [t EXCEPT
                           !.foundGoodCorrelation = TRUE,
                           !.bestCorrelation =
                               IF RGt(correlation, @) THEN correlation ELSE @,
                           !.bestOffset =
                               IF RGt(correlation, s.bestCorrelation)
                               THEN s.offset ELSE @,
                           !.lastCorrelation = correlation,
                           !.offset = s.offset + 1]
                  ELSE IF s.foundGoodCorrelation THEN Interpolate(t)
                  ELSE [t EXCEPT !.lastCorrelation = correlation,
                                 !.offset = s.offset + 1]))

\* lines 70-92: one pass of the loop over the lags
ScanLag(s) ==
    Bind(Similarity(s.buffer, s.offset),
         LAMBDA correlation :
           Bind([s EXCEPT !.correlations[s.offset + 1] = correlation],
                LAMBDA t :
                  IF RGt(correlation, Rat(9, 10))
                     /\ RGt(correlation, s.lastCorrelation)
                  THEN [t EXCEPT
                           !.foundGoodCorrelation = TRUE,
                           !.bestCorrelation =
                               IF RGt(correlation, @) THEN correlation ELSE @,
                           !.bestOffset =
                               IF RGt(correlation, s.bestCorrelation)
                               THEN s.offset ELSE @,
                           !.lastCorrelation = correlation,
                           !.offset = s.offset + 1]
                  ELSE IF s.foundGoodCorrelation THEN Interpolate(t)
                  ELSE [t EXCEPT !.lastCorrelation = correlation,
                                 !.offset = s.offset + 1]))

\* lines 94-97: after the loop
ScanEnd(s) ==
    IF RGt(s.bestCorrelation, Rat(1, 100))
    THEN [s EXCEPT !.pc = "done", !.outcome = "fallback",
                   !.period = RInt(s.bestOffset)]
    ELSE [s EXCEPT !.pc = "done", !.outcome = "nopitch"]

----------------------------------------------------------------------------
(* The state after construction and mount                                  *)

\* Date.now() when the page is loaded (ms); far more than a second past 0
LoadTime == 5000

AppInit ==
    /\ audioContext = "null" /\ analyser = FALSE /\ mediaStreamSource = FALSE
    /\ isListening = FALSE /\ pitch = NoPitch /\ error = FALSE
    /\ intervalRef = 0 /\ mounted = TRUE
    /\ timers = {} /\ pendingStarts = 0 /\ now = LoadTime
    /\ fxPending = FALSE /\ depListening = FALSE /\ depPosition = Null
    /\ depFreq = NoPitch
    /\ prevPositionRef = Null /\ position = Null
    /\ lastNoteUpdateRef = 0 /\ displayedNote = ""
    /\ lastOp = "mount" /\ lastNonNull = Null

WarpIdle == fraction = RInt(0) /\ gap = <<getFrequency(48), getFrequency(48)>>
            /\ warped = Null
NameIdle == noteNum = 6900 /\ noteName = "?"
\* no frame is being analysed
ScanIdle == scan = autoCorrelateStart(<<>>)

----------------------------------------------------------------------------
(* The session: App, AudioAnalyzer and Tower as one state machine: Spec     *)
(*                                                                         *)
(* Handlers work on a record of the whole state.  A state update re-renders *)
(* (Render) after the passive effects still pending from the previous       *)
(* commit have run; the effects of a commit made inside a click run before  *)
(* the click returns, those of any other commit run as a later step         *)
(* (FlushEffects), as under React 18's createRoot.                          *)

\* getUserMedia calls in flight at once
MaxPending == 2
\* interval ids the browser hands out
MaxTimers == 3
\* how often the clock advances, and by how many ms
MaxElapse == 2
ClockStep == 500

\* pitches the estimator reports that pass checkPitch's filter: E3, C4,
\* 282.1 Hz and 80 Hz; 1200 Hz is filtered out
Pitches == {1648, 2616, 2821, 800}
EstimatorOutputs == Pitches \cup {NoPitch, 12000}

St == [audioContext |-> audioContext, analyser |-> analyser,
       mediaStreamSource |-> mediaStreamSource, isListening |-> isListening,
       pitch |-> pitch, error |-> error, intervalRef |-> intervalRef,
       mounted |-> mounted, timers |-> timers,
       pendingStarts |-> pendingStarts, now |-> now, fxPending |-> fxPending,
       depListening |-> depListening, depPosition |-> depPosition,
       depFreq |-> depFreq, prevPositionRef |-> prevPositionRef,
       position |-> position, lastNoteUpdateRef |-> lastNoteUpdateRef,
       displayedNote |-> displayedNote, lastOp |-> lastOp,
       lastNonNull |-> lastNonNull, currentKey |-> currentKey]

Install(s) ==
    /\ audioContext' = s.audioContext /\ analyser' = s.analyser
    /\ mediaStreamSource' = s.mediaStreamSource
    /\ isListening' = s.isListening /\ pitch' = s.pitch /\ error' = s.error
    /\ intervalRef' = s.intervalRef /\ mounted' = s.mounted
    /\ timers' = s.timers /\ pendingStarts' = s.pendingStarts /\ now' = s.now
    /\ fxPending' = s.fxPending /\ depListening' = s.depListening
    /\ depPosition' = s.depPosition /\ depFreq' = s.depFreq
    /\ prevPositionRef' = s.prevPositionRef /\ position' = s.position
    /\ lastNoteUpdateRef' = s.lastNoteUpdateRef
    /\ displayedNote' = s.displayedNote
    /\ lastOp' = s.lastOp /\ lastNonNull' = s.lastNonNull
    /\ currentKey' = s.currentKey
    /\ UNCHANGED <<warpVars, nameVars, scanVars>>

\* window.clearInterval(id)
clearInterval(s, id) == [s EXCEPT !.timers = @ \ {id}]

\* window.setInterval: a fresh id (never one still referred to); past
\* MaxTimers live timers the last id is handed out again
setInterval(s) ==
    LET free == {i \in 1..MaxTimers : i \notin s.timers /\ i # s.intervalRef}
    IN  Bind(IF free # {} THEN Min(free) ELSE MaxTimers, LAMBDA id :
             [s EXCEPT !.timers = @ \cup {id}, !.intervalRef = id])

\* AudioAnalyzer.getPitch; p is what the RMS gate and autoCorrelate return
getPitch(s, p) ==
    IF ~s.analyser \/ s.audioContext = "null" THEN NoPitch ELSE p

checkPitch(s, p) ==
    Bind(getPitch(s, p), LAMBDA detectedPitch :
         IF detectedPitch > 700 /\ detectedPitch < 10000
         THEN [s EXCEPT !.pitch = detectedPitch]
         ELSE IF detectedPitch = -1 THEN [s EXCEPT !.pitch = -1]
         ELSE s)

\* AudioContext.close() rejects on a context that is already closed
StopRaises(s) == s.audioContext = "closed"

\* mutant: the context is closed but the field is not reset
AnalyzerStopKeepsContext(s) ==
    [s EXCEPT !.audioContext = IF @ = "null" THEN "null" ELSE "closed",
              !.analyser = FALSE]

\* AudioAnalyzer.stop
AnalyzerStop(s) == [s EXCEPT !.audioContext = "null", !.analyser = FALSE]

\* stopListening up to its two state updates, which the caller commits
stopListening(s) ==
    Bind(AnalyzerStop(s), LAMBDA a :
         IF a.intervalRef # 0
         THEN [clearInterval(a, a.intervalRef) EXCEPT !.intervalRef = 0]
         ELSE a)

\* Tower's render: the position, and whether any effect has changed inputs
Render(s) ==
    Bind(getPosition(s.pitch, scaleData[s.currentKey], s.prevPositionRef),
         LAMBDA pos :
            [s EXCEPT !.position = pos,
                      !.fxPending = \/ pos # s.depPosition
                                    \/ s.pitch # s.depFreq
                                    \/ s.isListening # s.depListening,
                      !.lastNonNull = IF pos # Null THEN pos ELSE @])

\* what the Tower draws: the rest position while listening without a pitch
renderPosition(s) ==
    IF s.position = Null /\ s.isListening THEN Rat(-5, 10) ELSE s.position

\* mutant: the effect without its null check
PositionEffectNoNullCheck(s) ==
    IF s.position = s.depPosition THEN s
    ELSE [s EXCEPT !.prevPositionRef = s.position,
                   !.depPosition = s.position]

\* Tower.tsx:110-114
PositionEffect(s) ==
    IF s.position = s.depPosition THEN s
    ELSE [s EXCEPT !.prevPositionRef = IF s.position # Null
                                       THEN s.position ELSE @,
                   !.depPosition = s.position]

\* Tower.tsx:117-126
NoteEffect(s) ==
    IF s.pitch = s.depFreq THEN s
    ELSE IF s.pitch <= 0
    THEN [s EXCEPT !.displayedNote = "", !.depFreq = s.pitch]
    ELSE IF s.now - s.lastNoteUpdateRef >= 1000
    THEN [s EXCEPT !.displayedNote = getNoteName(s.pitch),
                   !.lastNoteUpdateRef = s.now, !.depFreq = s.pitch]
    ELSE [s EXCEPT !.depFreq = s.pitch]

\* mutant: the interval's id is not kept in intervalRef
ListeningEffectLosesId(s, p) ==
    IF s.isListening = s.depListening THEN s
    ELSE Bind(IF s.intervalRef # 0
              THEN clearInterval(s, s.intervalRef) ELSE s,
              LAMBDA c :
                IF s.isListening
                THEN [Bind(checkPitch(c, p), setInterval) EXCEPT
                         !.intervalRef = 0, !.depListening = TRUE]
                ELSE IF c.intervalRef # 0
                THEN [clearInterval(c, c.intervalRef) EXCEPT
                         !.intervalRef = 0, !.depListening = FALSE]
                ELSE [c EXCEPT !.depListening = FALSE])

\* part_000:74-93: the previous run's cleanup, then the body
ListeningEffect(s, p) ==
    IF s.isListening = s.depListening THEN s
    ELSE Bind(IF s.intervalRef # 0
              THEN clearInterval(s, s.intervalRef) ELSE s,
              LAMBDA c :
                IF s.isListening
                THEN [Bind(checkPitch(c, p), setInterval) EXCEPT
                         !.depListening = TRUE]
                ELSE IF c.intervalRef # 0
                THEN [clearInterval(c, c.intervalRef) EXCEPT
                         !.intervalRef = 0, !.depListening = FALSE]
                ELSE [c EXCEPT !.depListening = FALSE])

\* the passive effects of one commit, children first
RunEffects(s, p) ==
    Bind(Bind(PositionEffect(s), NoteEffect), LAMBDA t :
         [ListeningEffect(t, p) EXCEPT !.fxPending = FALSE])

\* run the pending effects; a state they set re-renders
FlushFx(s, p) ==
    IF ~s.fxPending THEN s
    ELSE Bind(RunEffects(s, p), LAMBDA e :
              IF e.pitch # s.pitch \/ e.displayedNote # s.displayedNote
              THEN Render(e) ELSE e)

\* setState calls upd made by a handler: nothing on an unmounted component
\* or when no value changes; else pending effects, the render, and in a
\* click the new effects too
Commit(s, upd, p, discrete) ==
    IF ~s.mounted \/ \A f \in DOMAIN upd : upd[f] = s[f] THEN s
    ELSE Bind(Bind(Bind(IF s.fxPending THEN RunEffects(s, p) ELSE s,
                        LAMBDA e : [f \in DOMAIN e |->
                                      IF f \in DOMAIN upd THEN upd[f] ELSE e[f]]),
                   Render),
              LAMBDA r : IF discrete THEN FlushFx(r, p) ELSE r)

\* the handler's result r becomes the next state, with the history updated
Done(r, name) ==
    \E s \in {r} : Install([s EXCEPT !.lastOp = name])
DoneStop(r) ==
    \E s \in {r} :
        Install([s EXCEPT !.lastOp = IF @ \in {"stop", "stop2"}
                                     THEN "stop2" ELSE "stop"])

Init ==
    /\ AppInit /\ currentKey = "C" /\ WarpIdle /\ NameIdle /\ ScanIdle

\* toggleMic while not listening: startListening; AudioAnalyzer.start
\* returns at once when it holds a context, else it awaits getUserMedia
ClickStart ==
    /\ mounted /\ ~isListening
    /\ \E p \in EstimatorOutputs :
      \E s \in {St} :
        IF audioContext # "null"
        THEN Done(Bind(Commit(s, [error |-> FALSE], p, TRUE), LAMBDA c :
                       Commit(c, [isListening |-> TRUE], p, TRUE)), "startOk")
        ELSE /\ pendingStarts < MaxPending
             /\ Done(Bind([s EXCEPT !.audioContext = "running",
                                    !.pendingStarts = @ + 1], LAMBDA c :
                          Commit(c, [error |-> FALSE], p, TRUE)), "start")

\* getUserMedia resolves: the rest of start() (a TypeError when stop() has
\* dropped the context meanwhile), then setIsListening(true)
ResolveUserMedia ==
    /\ pendingStarts > 0
    /\ \E p \in EstimatorOutputs :
      \E s \in {[St EXCEPT !.pendingStarts = @ - 1]} :
        IF s.audioContext = "null"
        THEN Done(Commit(s, [error |-> TRUE], p, FALSE), "startThrew")
        ELSE Done(Bind([s EXCEPT !.analyser = TRUE,
                                 !.mediaStreamSource = TRUE], LAMBDA c :
                       Commit(c, [isListening |-> TRUE], p, FALSE)), "startOk")

\* getUserMedia rejects: start() rejects, startListening reports the error
RejectUserMedia ==
    /\ pendingStarts > 0
    /\ \E p \in EstimatorOutputs :
      \E s \in {[St EXCEPT !.pendingStarts = @ - 1]} :
        Done(Commit(s, [error |-> TRUE], p, FALSE), "startFailed")

\* stopListening called from a click, with the render it causes
StopHandler(s, p) ==
    Bind(stopListening(s), LAMBDA c :
         Commit(c, [isListening |-> FALSE, pitch |-> NoPitch], p, TRUE))

\* toggleMic while listening: stopListening
ClickStop ==
    /\ mounted /\ isListening
    /\ \E p \in EstimatorOutputs :
      \E s \in {St} : DoneStop(StopHandler(s, p))

\* the component unmounts: pending effects, then the cleanups (stopListening,
\* and the interval effect's own)
Unmount ==
    /\ mounted
    /\ \E p \in EstimatorOutputs :
      \E s \in {St} :
        DoneStop(Bind(Bind(IF fxPending THEN RunEffects(s, p) ELSE s,
                           stopListening), LAMBDA c :
                      [(IF c.intervalRef # 0
                        THEN clearInterval(c, c.intervalRef) ELSE c)
                       EXCEPT !.mounted = FALSE]))

\* a live interval timer fires: checkPitch
Tick ==
    \E t \in timers, p \in EstimatorOutputs :
      \E s \in {St} :
        \E np \in {checkPitch(s, p).pitch} :
            Done(Commit(s, [pitch |-> np], p, FALSE), "tick")

\* the pending passive effects run
FlushEffects ==
    /\ mounted /\ fxPending
    /\ \E p \in EstimatorOutputs :
         \E s \in {St} : Done(FlushFx(s, p), "effects")

\* time passes
Elapse ==
    /\ now < LoadTime + MaxElapse * ClockStep
    /\ now' = now + ClockStep
    /\ UNCHANGED <<audioContext, analyser, mediaStreamSource, isListening,
                   pitch, error, intervalRef, mounted, timers, pendingStarts,
                   fxPending, depListening, depPosition, depFreq,
                   prevPositionRef, position, lastNoteUpdateRef,
                   displayedNote, lastOp, lastNonNull, currentKey,
                   warpVars, nameVars, scanVars>>

Next ==
    \/ ClickStart
    \/ ResolveUserMedia
    \/ RejectUserMedia
    \/ ClickStop
    \/ Unmount
    \/ Tick
    \/ FlushEffects
    \/ Elapse

Spec == Init /\ [][Next]_vars

----------------------------------------------------------------------------
(* Claims about the session                                                *)

(* C1: after a failed start (getUserMedia rejected, no other start in
   flight, no session running) the analyzer holds nothing: no audio context
   and no analyser. *)
C1_FailedStartHoldsNothing ==
    (lastOp = "startFailed" /\ pendingStarts = 0 /\ ~isListening)
        => (audioContext = "null" /\ ~analyser)

(* C2: after stopListening the continuity state is absent again and the
   note label's rate-limiter memory is cleared. *)
C2_StopResetsTransient ==
    lastOp \in {"stop", "stop2"}
        => (prevPositionRef = Null /\ lastNoteUpdateRef = 0)

(* C3: once the effects of the last render have run, the continuity state
   is the most recent non-null position rendered (absent if there was
   none); it is never the rest value -0.5 that is drawn while listening
   without a pitch. *)
C3_ContinuityIsLastPosition ==
    /\ ~fxPending => prevPositionRef = lastNonNull
    /\ prevPositionRef # Rat(-5, 10)
    /\ prevPositionRef # Null => RLe(RInt(0), prevPositionRef)

\* a poll without a position (the rest value is drawn) after polls with one
C3_Witness ==
    /\ lastOp = "tick" /\ ~fxPending /\ isListening
    /\ position = Null /\ renderPosition(St) = Rat(-5, 10)
    /\ prevPositionRef # Null

(* C5: at most one polling timer is live, none while not listening, so
   that from stopListening until a start succeeds no timer tick runs and
   the pitch stays at no-pitch; a tick only happens while listening. *)
C5_NoTickAfterStop ==
    /\ Cardinality(timers) <= 1
    /\ ~isListening => (timers = {} /\ pitch = NoPitch)
    /\ lastOp = "tick" => isListening

\* stopped after a session in which the timer polled positions
C5_Witness ==
    /\ lastOp = "stop" /\ mounted /\ ~isListening /\ timers = {}
    /\ mediaStreamSource /\ prevPositionRef # Null

(* C6: whenever the app is listening the analyzer holds a complete session
   (audio context and analyser), and a failed start is reported as an
   error. *)
C6_ListeningHasSession ==
    /\ isListening => (audioContext = "running" /\ analyser)
    /\ (lastOp \in {"startFailed", "startThrew"} /\ mounted) => error

(* C7: stop raises no error in any state, and stopping twice leaves the
   state that stopping once leaves, for AudioAnalyzer.stop and for
   stopListening. *)
C7_StopIdempotent ==
    \E s \in {St} :
      \E once \in {StopHandler(s, NoPitch)} :
        /\ ~StopRaises(s) /\ ~StopRaises(once)
        /\ StopHandler(once, NoPitch) = once
        /\ \E a \in {AnalyzerStop(s)} : AnalyzerStop(a) = a

\* stopListening ran twice in a row after a session had been started
C7_Witness == lastOp = "stop2" /\ mediaStreamSource /\ ~mounted

----------------------------------------------------------------------------
(* The mapper on its own, over every key and a grid of frequencies: SpecMap *)

\* interior sample points split each tone interval into SampleDiv parts
SampleDiv == 2

ScaleSamples(scale) ==
    LET minFreq == scale[1].freq
        maxFreq == scale[Len(scale)].freq
    IN  {scale[i].freq : i \in 1..Len(scale)}
        \cup {scale[i].freq
              + (j * (scale[i + 1].freq - scale[i].freq)) \div SampleDiv :
                 i \in 1..(Len(scale) - 1), j \in 1..(SampleDiv - 1)}
        \cup {minFreq - 151, minFreq - 150, minFreq - 1,
              maxFreq + 1, maxFreq + 150, maxFreq + 151}

FreqSamples(key) ==
    ScaleSamples(scaleData[key].scaleLow)
    \cup ScaleSamples(scaleData[key].scaleHigh) \cup {NoPitch, 0}

InitMap ==
    /\ AppInit /\ WarpIdle /\ NameIdle /\ ScanIdle
    /\ currentKey \in DOMAIN KEY_OFFSETS

\* one poll: the Tower renders the frequency, then its position effect runs
MapPoll ==
    \E f \in FreqSamples(currentKey) :
      \E s \in {[St EXCEPT !.pitch = f]} :
        \E r \in {Render(s)} :
          \E e \in {PositionEffect(r)} :
            Install([e EXCEPT !.fxPending = FALSE, !.depFreq = f,
                              !.lastOp = "poll"])

NextMap == MapPoll
SpecMap == InitMap /\ [][NextMap]_vars

\* the pitch lies within 15 Hz of the range of the scale definition
InBand(scale) ==
    /\ pitch >= scale[1].freq - 150
    /\ pitch <= scale[Len(scale)].freq + 150

(* C4: in the overlap zone the mapper returns the low-definition result
   when the continuity state is above 3.5 or absent and the high-definition
   result when it is present and at most 3.5; when one definition alone
   yields a position, that one is returned. *)
C4_Hysteresis ==
    [][\E lo \in {calculateScalePosition(pitch', scaleData[currentKey].scaleLow)},
          hi \in {calculateScalePosition(pitch', scaleData[currentKey].scaleHigh)} :
          (lastOp' = "poll" /\ pitch' > 0) =>
            /\ (lo # Null /\ hi # Null) =>
                  position' = IF prevPositionRef # Null
                                 /\ RLe(prevPositionRef, Rat(7, 2))
                              THEN hi ELSE lo
            /\ (lo # Null /\ hi = Null) => position' = lo
            /\ (lo = Null /\ hi # Null) => position' = hi]_vars

\* a poll in the overlap zone resolved to the high definition
C4_Witness ==
    /\ lastOp = "poll" /\ pitch > 0
    /\ calculateScalePosition(pitch, scaleData[currentKey].scaleLow) # Null
    /\ calculateScalePosition(pitch, scaleData[currentKey].scaleHigh) = position
    /\ calculateScalePosition(pitch, scaleData[currentKey].scaleLow) # position
    /\ position # Null

(* C8: the position is absent or within [0,7]; it is absent exactly when
   the frequency is <= 0 or outside the 15 Hz band around both
   definitions; inside the buffer below a definition's lowest tone that
   definition gives 0 and inside the buffer above its highest tone 7, and
   so does the mapper below the lowest and above the highest tone of all. *)
C8_PositionRange ==
    LET lo == scaleData[currentKey].scaleLow
        hi == scaleData[currentKey].scaleHigh
    IN  /\ position # Null => (RLe(RInt(0), position) /\ RLe(position, RInt(7)))
        /\ lastOp = "poll" =>
            /\ (position = Null) <=> (pitch <= 0 \/ (~InBand(lo) /\ ~InBand(hi)))
            /\ \A sc \in {lo, hi} :
                /\ (pitch > 0 /\ InBand(sc) /\ pitch < sc[1].freq)
                      => calculateScalePosition(pitch, sc) = RInt(0)
                /\ (InBand(sc) /\ pitch > sc[Len(sc)].freq)
                      => calculateScalePosition(pitch, sc) = RInt(7)
            /\ (pitch > 0 /\ InBand(lo) /\ pitch < lo[1].freq)
                  => position = RInt(0)
            /\ (InBand(hi) /\ pitch > hi[Len(hi)].freq) => position = RInt(7)

\* a frequency in the buffer above the highest tone, clamped to 7
C8_Witness ==
    /\ lastOp = "poll" /\ position = RInt(7)
    /\ pitch > scaleData[currentKey].scaleHigh[8].freq

----------------------------------------------------------------------------
(* The warp function on its own: SpecWarp                                  *)

\* fractions are k / WarpRes, k in 0..WarpRes
WarpRes == 40
\* gaps run between the tones of midi 48 .. 48 + GapSpan
GapSpan == 4

GapTones == {getFrequency(m) : m \in BASE_C3_MIDI..(BASE_C3_MIDI + GapSpan)}
WarpPoints == {Rat(k, WarpRes) : k \in 0..WarpRes} \cup {Rat(3, 8), Rat(5, 8)}

InitWarp ==
    /\ AppInit /\ currentKey = "C" /\ NameIdle /\ ScanIdle
    /\ fraction \in WarpPoints
    /\ gap \in GapTones \X GapTones
    /\ warped = Null

WarpApply ==
    /\ warped = Null
    /\ warped' = getWarpedFraction(fraction, gap[1], gap[2])
    /\ UNCHANGED <<appVars, currentKey, nameVars, scanVars, fraction, gap>>

NextWarp == WarpApply
SpecWarp == InitWarp /\ [][NextWarp]_vars

\* semitones between the two tones of the gap (both are table tones)
GapSemitones == Abs(NoteNumOf(gap[2]) - NoteNumOf(gap[1])) \div 100

(* C9: over a whole-tone gap the warp is non-decreasing on [0,1] and has no
   jump (between any two points x <= y it rises by at most 1.2 (y - x), the
   steepest segment's slope), it maps 0 to 0, 0.375 to 0.45, 0.625 to 0.55
   and 1 to 1; over any other gap it is the identity. *)
C9_WarpShape ==
    warped # Null =>
        IF GapSemitones = 2
        THEN /\ \A y \in WarpPoints :
                  RLe(fraction, y) =>
                      LET wy == getWarpedFraction(y, gap[1], gap[2])
                      IN  /\ RLe(warped, wy)
                          /\ RLe(RSub(wy, warped),
                                 RMul(Rat(6, 5), RSub(y, fraction)))
             /\ getWarpedFraction(RInt(0), gap[1], gap[2]) = RInt(0)
             /\ getWarpedFraction(Rat(375, 1000), gap[1], gap[2]) = Rat(45, 100)
             /\ getWarpedFraction(Rat(625, 1000), gap[1], gap[2]) = Rat(55, 100)
             /\ getWarpedFraction(RInt(1), gap[1], gap[2]) = RInt(1)
        ELSE warped = fraction

\* a whole-tone gap warped at a point strictly inside the middle segment
C9_Witness ==
    /\ warped # Null /\ GapSemitones = 2
    /\ RLt(Rat(3, 8), fraction) /\ RLt(fraction, Rat(5, 8))
    /\ warped # fraction

----------------------------------------------------------------------------
(* The note namer on its own: SpecName                                     *)

\* note numbers run from -NameSpan to 6900 + NameSpan cents
NameSpan == 1300

InitName ==
    /\ AppInit /\ currentKey = "C" /\ WarpIdle /\ ScanIdle
    /\ noteNum \in (-NameSpan)..(6900 + NameSpan)
    /\ noteName = "?"

NameApply ==
    /\ noteName = "?"
    /\ noteName' = NoteLabel(noteNum)
    /\ UNCHANGED <<appVars, currentKey, warpVars, scanVars, noteNum>>

NextName == NameApply
SpecName == InitName /\ [][NextName]_vars

\* the claim's own reading of the naming rule, on the note number n in cents
NarrowNames == {"C#", "Eb", "G#", "Bb"}
ClaimRounded(n) == CHOOSE r \in -40..120 : 100 * r - 50 <= n /\ n < 100 * r + 50
ClaimName(note) == noteStrings[(note % 12) + 1]
ClaimChosen(n) ==
    LET r == ClaimRounded(n)
    IN  IF ClaimName(r) \in NarrowNames /\ Abs(n - 100 * r) > 25
        THEN IF n > 100 * r THEN r + 1 ELSE r - 1
        ELSE r

(* C10: the label is that of rounded+1 / rounded-1 when the rounded note is
   C#, Eb, G# or Bb and the deviation exceeds 0.25 semitone, of rounded
   otherwise; its octave is floor(note / 12) - 1 of the note chosen; a
   narrow name is only output within 0.25 semitone of its note. *)
C10_NoteName ==
    noteName # "?" =>
        LET c == ClaimChosen(noteNum)
        IN  /\ noteName = ClaimName(c) \o ToString((c \div 12) - 1)
            /\ ClaimName(c) \in NarrowNames => Abs(noteNum - 100 * c) <= 25

\* 0.3 semitone above C#4 is labelled D4
C10_Witness == noteNum = 6130 /\ noteName = "D4"

----------------------------------------------------------------------------
(* The pitch estimator on its own, over every short frame: SpecScan *)

\* the longest frame over all sample values, and over the loud ones
ShortFrame == 5
MaxFrame == 10
\* sample values in units of 1/Unit: -1, silence, 0.005, 0.95, 1
SampleVals == {-Unit, 0, 1, Unit - 10, Unit}
LoudVals == {-Unit, Unit - 10, Unit}
Frames ==
    UNION ({[1..n -> SampleVals] : n \in 0..ShortFrame}
           \cup {[1..n -> LoudVals] : n \in 0..MaxFrame})

InitScan ==
    /\ AppInit /\ currentKey = "C" /\ WarpIdle /\ NameIdle
    /\ scan \in {autoCorrelateStart(buf) : buf \in Frames}

\* getPitch up to its volume test
GetPitchGate ==
    /\ scan.pc = "rms"
    /\ scan' = RmsGate(scan)
    /\ UNCHANGED <<appVars, currentKey, warpVars, nameVars>>

\* one lag of the scan
ScanStep ==
    /\ scan.pc = "scan" /\ scan.offset < scan.MAX_SAMPLES
    /\ scan' = ScanLag(scan)
    /\ UNCHANGED <<appVars, currentKey, warpVars, nameVars>>

\* the loop has run through every lag
ScanFinish ==
    /\ scan.pc = "scan" /\ scan.offset = scan.MAX_SAMPLES
    /\ scan' = ScanEnd(scan)
    /\ UNCHANGED <<appVars, currentKey, warpVars, nameVars>>

NextScan ==
    \/ GetPitchGate
    \/ ScanStep
    \/ ScanFinish

SpecScan == InitScan /\ [][NextScan]_vars

\* the scan ran through every lag of a non-empty range without returning
ScanExhausted ==
    /\ scan.pc = "done" /\ ~TooQuiet(scan.buffer)
    /\ scan.MAX_SAMPLES > 0 /\ scan.offset = scan.MAX_SAMPLES

\* the first lag whose similarity no other lag exceeds
BestSeenLag ==
    Min({l \in 0..(scan.MAX_SAMPLES - 1) :
            \A m \in 0..(scan.MAX_SAMPLES - 1) :
                RLe(scan.correlations[m + 1], scan.correlations[l + 1])})

(* C11: when the scan ends without a qualifying peak, the lag of the best
   similarity seen over the whole scan is the fallback lag if that
   similarity exceeds 0.01, and only otherwise is the result no-pitch. *)
C11_FallbackLag ==
    (ScanExhausted /\ ~scan.foundGoodCorrelation) =>
        IF RGt(scan.correlations[BestSeenLag + 1], Rat(1, 100))
        THEN scan.outcome = "fallback" /\ scan.period = RInt(BestSeenLag)
        ELSE scan.outcome = "nopitch"

(* C12: no similarity is read outside the computed lags: an interpolation
   is made at a lag L >= 1 that is the lag just before the first descent,
   with L-1, L and L+1 all computed; a chosen lag is never 0, and empty,
   too-short and silent frames end in no-pitch. *)
C12_ReadsInRange ==
    /\ scan.outcome # "nan"
    /\ scan.outcome = "interpolated" =>
        /\ scan.bestOffset >= 1
        /\ scan.bestOffset = scan.offset - 1
        /\ scan.reads =
              {scan.bestOffset - 1, scan.bestOffset, scan.bestOffset + 1}
        /\ scan.reads \subseteq 0..scan.offset
    /\ scan.bestOffset # 0
    /\ scan.outcome = "fallback" => RGt(scan.period, RInt(0))
    /\ (scan.pc = "done"
        /\ (Len(scan.buffer) < 4 \/ TooQuiet(scan.buffer)))
          => scan.outcome = "nopitch"

\* a scan that rose over two qualifying lags, stopped at the descent
\* and interpolated
C12_Witness ==
    /\ scan.outcome = "interpolated"
    /\ scan.bestOffset >= 3
    /\ RGt(scan.correlations[scan.bestOffset], Rat(9, 10))
    /\ RGt(scan.correlations[scan.bestOffset],
           scan.correlations[scan.bestOffset - 1])
    /\ scan.period # RInt(scan.bestOffset)

=============================================================================
